---- MODULE Spec2Model ----
(***************************************************************************)
(* Model of customVector.hpp: SimpleAllocator<T> and Vector<T, Allocator>. *)
(*                                                                         *)
(* The heap is a set of storage blocks.  A block records the slot count it *)
(* was allocated with and the memory starting at its address; the memory   *)
(* is PhysLen slots long, so that slots at and past the block's slot count *)
(* (memory that does not belong to the block) can be addressed.  A write   *)
(* past the end of a block is undefined behaviour: the model raises the    *)
(* oob event and either the written slot keeps the value (the memory was   *)
(* unused), or the memory is in use by something else: the slot holds      *)
(* Garbage from then on and an element of another block is overwritten.    *)
(*                                                                         *)
(* Failures are injected with a fuel counter: fuel = k > 0 makes the k-th  *)
(* fallible call of an operation (allocate, or construct of an element)    *)
(* throw; fuel = 0 injects nothing.  Every operation is run with every     *)
(* fuel up to the number of fallible calls it makes.                       *)
(***************************************************************************)
EXTENDS Integers, Sequences, FiniteSets, TLC

\* ------------------------------------------------------------------ bounds
MaxLen == 3          \* largest size, capacity, count and target explored
MaxPairLen == 2      \* the same, in the program with two Vectors
MaxOrphans == 1      \* storage blocks that may be lost before leaking paths stop
MaxLong == 4         \* largest size in the program that only appends and reserves

\* ------------------------------------------------------------- data model
VecIds == {"A", "B"}                \* the program's Vector objects
AllVecs == VecIds \cup {"tmp"}      \* plus the local `tmp` of operator=
BlockIds == 1..(3 + MaxOrphans)     \* addresses handed out by allocate
Null == 0                           \* nullptr
PhysLen == MaxLong                  \* addressable slots from a block's start
Values == {1, 2}                    \* element values passed in by callers
DefaultVal == 0                     \* T() for a value-initialised element
Raw == 0 - 2                        \* storage holding no constructed element
Garbage == 0 - 1                    \* indeterminate content after UB

NoVec == [live |-> FALSE, data |-> Null, size |-> 0, capacity |-> 0]
FreeBlock == [live |-> FALSE, n |-> 0, mem |-> [i \in 1..PhysLen |-> Raw]]
\* What an operation did besides changing the Vectors: oob, a slot outside its
\* block was touched; dfree, a block that is not allocated was released; badn,
\* a block was released with another slot count than it was allocated with;
\* leak, storage was given up with constructed elements in it; refail, a
\* reallocation failed, after transferring `undone` elements; oobr, a slot
\* outside its block was read; asked, the slot count reserve_more was called
\* with (0 when it was not called).
NoEvents == [oob |-> FALSE, dfree |-> FALSE, badn |-> FALSE, leak |-> FALSE,
             refail |-> FALSE, undone |-> 0, oobr |-> FALSE, asked |-> 0]

VARIABLES vec, heap, last
vars == <<vec, heap, last>>

\* The machine state threaded through one operation.
Machine(fuel, garble) ==
  [vec |-> vec, heap |-> heap, ev |-> NoEvents, fuel |-> fuel, calls |-> 0,
   garble |-> garble, thrown |-> FALSE, ret |-> 0]

Min(a, b) == IF a < b THEN a ELSE b

\* ------------------------------------------------------- SimpleAllocator
Tick(m) == [m EXCEPT !.fuel = IF @ > 0 THEN @ - 1 ELSE 0, !.calls = @ + 1]
Throw(m) == [m EXCEPT !.fuel = 0, !.thrown = TRUE]

\* allocate(n): ::operator new; a fresh block of n unconstructed slots.
Allocate(m, n) ==
  IF m.fuel = 1 THEN Throw(m)
  ELSE LET free == {b \in BlockIds : ~m.heap[b].live}
           b == CHOOSE x \in free : \A y \in free : x <= y
       IN [Tick(m) EXCEPT !.heap[b] = [live |-> TRUE, n |-> n,
                                       mem |-> [i \in 1..PhysLen |-> Raw]],
                          !.ret = b]

\* deallocate(ptr, n): ::operator delete(ptr); nullptr is a no-op.
Deallocate(m, b, n) ==
  IF b = Null THEN m
  ELSE IF ~m.heap[b].live THEN [m EXCEPT !.ev.dfree = TRUE]
  ELSE [m EXCEPT !.heap[b] = FreeBlock,
                 !.ev.badn = @ \/ (n # m.heap[b].n),
                 !.ev.leak = @ \/ (\E i \in 1..PhysLen : m.heap[b].mem[i] # Raw)]

\* The heap after val is written i slots from the start of block b, past its
\* end, into memory that is in use: the slot does not keep the value, and when
\* the block at the next address has an element that far past b's end, that
\* element is overwritten.
Clobber(h, b, i, val) ==
  LET j == i - h[b].n + 1
  IN IF b + 1 \in BlockIds /\ h[b + 1].live /\ h[b + 1].mem[j] # Raw
     THEN [h EXCEPT ![b].mem[i + 1] = Garbage, ![b + 1].mem[j] = val]
     ELSE [h EXCEPT ![b].mem[i + 1] = Garbage]

\* construct(ptr + i, val): ::new(ptr) T(val); T's constructor may throw.
Construct(m, b, i, val) ==
  IF m.fuel = 1 THEN Throw(m)
  ELSE IF b = Null \/ i >= PhysLen THEN [Tick(m) EXCEPT !.ev.oob = TRUE]
  ELSE IF i >= m.heap[b].n
       THEN [Tick(m) EXCEPT !.ev.oob = TRUE,
                            !.heap = IF m.garble THEN Clobber(m.heap, b, i, val)
                                     ELSE [m.heap EXCEPT ![b].mem[i + 1] = val]]
       ELSE [Tick(m) EXCEPT !.heap[b].mem[i + 1] = val]

\* destroy(ptr + i): ptr->~T().
Destroy(m, b, i) ==
  IF b = Null \/ i >= PhysLen THEN [m EXCEPT !.ev.oob = TRUE]
  ELSE [m EXCEPT !.heap[b].mem[i + 1] = Raw,
                 !.ev.oob = @ \/ (i >= m.heap[b].n)]

\* Whether data_[i] lies outside the block at data_.
Outside(h, b, i) == b = Null \/ i >= h[b].n

\* data_[i] read as a value.
ReadSlot(h, b, i) ==
  IF b = Null \/ i >= PhysLen THEN Garbage
  ELSE IF h[b].mem[i + 1] = Raw THEN Garbage ELSE h[b].mem[i + 1]

\* The elements of a vector, front to back: data_[0], ..., data_[size_ - 1].
ElemsOf(h, v) == [i \in 1..v.size |-> ReadSlot(h, v.data, i - 1)]

\* Observable state of a vector.
Snap(h, v) == [live |-> v.live, data |-> v.data, size |-> v.size,
               capacity |-> v.capacity, elems |-> ElemsOf(h, v)]

\* ------------------------------------------------------ Vector internals
\* Statements run in sequence: `x \in {e}` names the state after e, and The
\* gives the state after the statements that follow.
The(S) == CHOOSE x \in S : TRUE

RECURSIVE ConstructFill(_, _, _, _, _)
\* for (i = from; i < to; ++i) construct(data + i, val);
ConstructFill(m, b, from, to, val) ==
  IF from >= to THEN m
  ELSE The({IF m1.thrown THEN m1 ELSE ConstructFill(m1, b, from + 1, to, val) :
            m1 \in {Construct(m, b, from, val)}})

RECURSIVE CopyLoop(_, _, _, _, _)
\* for (i = from; i < to; ++i) { construct(dst + i, src[i]); ++constructed; }
\* ret is the number of elements constructed when the loop ends or throws.
CopyLoop(m, dst, src, from, to) ==
  IF from >= to THEN [m EXCEPT !.ret = from]
  ELSE The({IF m1.thrown THEN [m1 EXCEPT !.ret = from]
            ELSE CopyLoop([m1 EXCEPT !.ev.oobr = @ \/ Outside(m.heap, src, from)],
                          dst, src, from + 1, to) :
            m1 \in {Construct(m, dst, from, ReadSlot(m.heap, src, from))}})

RECURSIVE DestroyRange(_, _, _, _)
\* for (i = from; i < to; ++i) destroy(data + i);
DestroyRange(m, b, from, to) ==
  IF from >= to THEN m
  ELSE The({DestroyRange(m1, b, from + 1, to) : m1 \in {Destroy(m, b, from)}})

\* The success path of reserve_more: destroy the old elements, release the
\* old block, adopt the new one.
AdoptNew(m, v, new_data, new_capacity) ==
  The({The({[m4 EXCEPT !.vec[v].data = new_data,
                       !.vec[v].capacity = new_capacity] :
            m4 \in {Deallocate(m3, m.vec[v].data, m.vec[v].capacity)}}) :
       m3 \in {DestroyRange(m, m.vec[v].data, 0, m.vec[v].size)}})

\* The catch block of reserve_more: destroy the transferred elements, release
\* the new block, rethrow.
RollBack(m, new_data, new_capacity, constructed) ==
  The({The({[m4 EXCEPT !.ev.refail = TRUE, !.ev.undone = constructed] :
            m4 \in {Deallocate(m3, new_data, new_capacity)}}) :
       m3 \in {DestroyRange(m, new_data, 0, constructed)}})

\* reserve_more(new_capacity)
reserve_more(m, v, new_capacity) ==
  The({IF m1.thrown THEN [m1 EXCEPT !.ev.refail = TRUE]
       ELSE The({IF ~m2.thrown THEN AdoptNew(m2, v, m1.ret, new_capacity)
                 ELSE RollBack(m2, m1.ret, new_capacity, m2.ret) :
                 m2 \in {CopyLoop(m1, m1.ret, m.vec[v].data, 0, m.vec[v].size)}}) :
       m1 \in {Allocate([m EXCEPT !.ev.asked = new_capacity], new_capacity)}})

\* Growth by doubling.
GrowthOf_doubles(capacity) == IF capacity = 0 THEN 1 ELSE 2 * capacity

\* static_cast<size_t>(capacity_ * 1.5), 1 when capacity_ is 0
GrowthOf(capacity) == IF capacity = 0 THEN 1 ELSE (3 * capacity) \div 2

\* emplace_back(args...), push_back(value)
emplace_back(m, v, val) ==
  The({IF m1.thrown THEN m1
       ELSE The({IF m2.thrown THEN m2 ELSE [m2 EXCEPT !.vec[v].size = @ + 1] :
                 m2 \in {Construct(m1, m1.vec[v].data, m1.vec[v].size, val)}}) :
       m1 \in {IF m.vec[v].size = m.vec[v].capacity
               THEN reserve_more(m, v, GrowthOf(m.vec[v].capacity))
               ELSE m}})

\* Vector()
ctor_default(m, v) == [m EXCEPT !.vec[v] = [NoVec EXCEPT !.live = TRUE]]

\* Vector(size_t n) with val = T(), Vector(size_t n, const T& value)
ctor_sized(m, v, n, val) ==
  IF n > 0
  THEN The({IF m1.thrown THEN m1
            ELSE The({IF m2.thrown THEN Deallocate(m2, m1.ret, n)
                      ELSE [m2 EXCEPT !.vec[v] = [live |-> TRUE, data |-> m1.ret,
                                                  size |-> n, capacity |-> n]] :
                      m2 \in {ConstructFill(m1, m1.ret, 0, n, val)}}) :
            m1 \in {Allocate(m, n)}})
  ELSE ctor_default(m, v)

\* An object whose constructor exits by exception: its members are dropped
\* as they are.  Its elements stay constructed and its block stays allocated.
\* Nothing refers to that memory any more: its content is not kept, and the
\* block is listed at the highest free address.
Abandon(m, v) ==
  LET x == m.vec[v]
      spare == {b \in BlockIds : ~m.heap[b].live} \cup {x.data}
      top == CHOOSE b \in spare : \A c \in spare : c <= b
  IN IF x.data = Null THEN [m EXCEPT !.vec[v] = NoVec]
     ELSE [m EXCEPT !.vec[v] = NoVec,
                    !.ev.leak = @ \/ (x.size > 0),
                    !.heap = [b \in BlockIds |->
                                IF b = top
                                THEN [live |-> TRUE, n |-> m.heap[x.data].n,
                                      mem |-> [i \in 1..PhysLen |-> Raw]]
                                ELSE IF b = x.data THEN FreeBlock
                                ELSE m.heap[b]]]

RECURSIVE PushAll(_, _, _, _)
\* for (it = first; it != last; ++it) push_back(*it);
PushAll(m, v, s, k) ==
  IF k > Len(s) THEN m
  ELSE The({IF m1.thrown THEN m1 ELSE PushAll(m1, v, s, k + 1) :
            m1 \in {emplace_back(m, v, s[k])}})

\* Vector(InputIt first, InputIt last), Vector(initializer_list).  When a
\* push_back throws the constructor exits by exception: the object never
\* becomes live and ~Vector does not run for it.
ctor_range(m, v, s) ==
  The({The({IF m1.thrown THEN Abandon(m1, v) ELSE m1 :
            m1 \in {PushAll(m0, v, s, 1)}}) :
       m0 \in {ctor_default(m, v)}})

\* Vector(const Vector& other)
ctor_copy(m, v, other) ==
  IF m.vec[other].size > 0
  THEN The({IF m1.thrown THEN m1
            ELSE The({IF m2.thrown THEN Deallocate(m2, m1.ret, m.vec[other].size)
                      ELSE [m2 EXCEPT !.vec[v] =
                              [live |-> TRUE, data |-> m1.ret,
                               size |-> m.vec[other].size,
                               capacity |-> m.vec[other].size]] :
                      m2 \in {CopyLoop(m1, m1.ret, m.vec[other].data, 0,
                                       m.vec[other].size)}}) :
            m1 \in {Allocate(m, m.vec[other].size)}})
  ELSE ctor_default(m, v)

\* The move constructor without the reset of other.data_.
ctor_move_keeps_data(m, v, other) ==
  [m EXCEPT !.vec[v] = [live |-> TRUE, data |-> m.vec[other].data,
                        size |-> m.vec[other].size,
                        capacity |-> m.vec[other].capacity],
            !.vec[other] = [m.vec[other] EXCEPT !.size = 0, !.capacity = 0]]

\* Vector(Vector&& other) noexcept
ctor_move(m, v, other) ==
  [m EXCEPT !.vec[v] = [live |-> TRUE, data |-> m.vec[other].data,
                        size |-> m.vec[other].size,
                        capacity |-> m.vec[other].capacity],
            !.vec[other] = [m.vec[other] EXCEPT !.data = Null, !.size = 0,
                                                !.capacity = 0]]

\* ~Vector()
dtor(m, v) ==
  The({The({[m2 EXCEPT !.vec[v] = NoVec] :
            m2 \in {Deallocate(m1, m.vec[v].data, m.vec[v].capacity)}}) :
       m1 \in {DestroyRange(m, m.vec[v].data, 0, m.vec[v].size)}})

\* std::swap of data_, size_ and capacity_ between *this and tmp
swap_fields(m, v, w) ==
  [m EXCEPT !.vec[v] = [m.vec[w] EXCEPT !.live = m.vec[v].live],
            !.vec[w] = [m.vec[v] EXCEPT !.live = m.vec[w].live]]

\* operator=(const Vector& other): tmp(other), swap, ~tmp
assign_copy(m, v, other) ==
  The({IF m1.thrown THEN m1
       ELSE The({dtor(m2, "tmp") : m2 \in {swap_fields(m1, v, "tmp")}}) :
       m1 \in {ctor_copy(m, "tmp", other)}})

\* operator=(Vector&& other): tmp(std::move(other)), swap, ~tmp
assign_move(m, v, other) ==
  The({The({dtor(m2, "tmp") : m2 \in {swap_fields(m1, v, "tmp")}}) :
       m1 \in {ctor_move(m, "tmp", other)}})

\* pop_back that destroys data_ + size_ before decrementing size_.
pop_back_destroys_past(m, v) ==
  IF m.vec[v].size > 0
  THEN The({[m1 EXCEPT !.vec[v].size = @ - 1] :
            m1 \in {Destroy(m, m.vec[v].data, m.vec[v].size)}})
  ELSE m

\* pop_back()
pop_back(m, v) ==
  IF m.vec[v].size > 0
  THEN The({Destroy(m1, m1.vec[v].data, m1.vec[v].size) :
            m1 \in {[m EXCEPT !.vec[v].size = @ - 1]}})
  ELSE m

\* check_index with the comparison index > size_.
check_index_accepts_size(m, v, index) ==
  IF index > m.vec[v].size THEN Throw(m) ELSE m

\* check_index(index): throws std::out_of_range when index >= size_.
check_index(m, v, index) ==
  IF index >= m.vec[v].size THEN Throw(m) ELSE m

\* at(index): check_index(index); return data_[index];  ret is the value of
\* the element the returned reference denotes.
at(m, v, index) ==
  The({IF m1.thrown THEN m1
       ELSE [m1 EXCEPT !.ret = ReadSlot(m1.heap, m1.vec[v].data, index),
                       !.ev.oobr = Outside(m1.heap, m1.vec[v].data, index)] :
       m1 \in {check_index(m, v, index)}})

\* reserve(new_capacity)
reserve(m, v, new_capacity) ==
  IF new_capacity > m.vec[v].capacity THEN reserve_more(m, v, new_capacity) ELSE m

\* shrink_to_fit()
shrink_to_fit(m, v) ==
  IF m.vec[v].capacity > m.vec[v].size
  THEN IF m.vec[v].size = 0
       THEN The({[m1 EXCEPT !.vec[v].data = Null, !.vec[v].capacity = 0] :
                 m1 \in {Deallocate(m, m.vec[v].data, m.vec[v].capacity)}})
       ELSE reserve_more(m, v, m.vec[v].size)
  ELSE m

\* resize(count) with val = T(), resize(count, value)
resize(m, v, count, val) ==
  IF count < m.vec[v].size
  THEN The({[m1 EXCEPT !.vec[v].size = count] :
            m1 \in {DestroyRange(m, m.vec[v].data, count, m.vec[v].size)}})
  ELSE IF count > m.vec[v].size
  THEN The({IF m1.thrown THEN m1
            ELSE The({IF m2.thrown THEN m2 ELSE [m2 EXCEPT !.vec[v].size = count] :
                      m2 \in {ConstructFill(m1, m1.vec[v].data, m.vec[v].size,
                                            count, val)}}) :
            m1 \in {IF count > m.vec[v].capacity
                    THEN reserve_more(m, v, count) ELSE m}})
  ELSE m

\* clear that also gives the storage back.
clear_releases(m, v) ==
  The({The({[m2 EXCEPT !.vec[v].size = 0, !.vec[v].data = Null,
                       !.vec[v].capacity = 0] :
            m2 \in {Deallocate(m1, m.vec[v].data, m.vec[v].capacity)}}) :
       m1 \in {DestroyRange(m, m.vec[v].data, 0, m.vec[v].size)}})

\* clear()
clear(m, v) ==
  The({[m1 EXCEPT !.vec[v].size = 0] :
       m1 \in {DestroyRange(m, m.vec[v].data, 0, m.vec[v].size)}})

\* Iterator(ptr), ConstIterator(ptr): the position off slots past address b.
Iterator(b, off) == [block |-> b, off |-> off]
\* begin(), end(), cbegin(), cend() of the Vector with members x
begin(x) == Iterator(x.data, 0)
end(x) == Iterator(x.data, x.size)
cbegin(x) == Iterator(x.data, 0)
cend(x) == Iterator(x.data, 0)
\* operator-(other): ptr_ - other.ptr_, for positions of one block
Distance(a, b) == a.off - b.off

RECURSIVE Traverse(_, _, _)
\* for (it = first; it != last; ++it) visit(*it);  the values visited, for a
\* first that is not past last.
Traverse(h, first, lst) ==
  IF first = lst THEN <<>>
  ELSE <<ReadSlot(h, first.block, first.off)>>
         \o Traverse(h, Iterator(first.block, first.off + 1), lst)

\* ------------------------------------------------------------ the program
Counts(L) == 0..L
Sources(L) == UNION {[1..k -> Values] : k \in 0..L}
\* In the program with two Vectors the caller appends the element's ordinal.
PairValues(v) == {vec[v].size + 1}

\* Blocks that are allocated and belong to no live Vector.
Orphans(vs, h) ==
  {b \in BlockIds : h[b].live /\ \A x \in AllVecs : ~(vs[x].live /\ vs[x].data = b)}

Init ==
  /\ vec = [x \in AllVecs |-> NoVec]
  /\ heap = [b \in BlockIds |-> FreeBlock]
  /\ last = [op |-> "init", v |-> "A", src |-> "A", res |-> "ok", arg |-> 0,
             val |-> DefaultVal, seq |-> <<>>, ev |-> NoEvents, ret |-> DefaultVal]

\* The state after an operation that ran to its end or left by exception.
Commit(m, op, v, src, arg, val, seq) ==
  /\ Cardinality(Orphans(m.vec, m.heap)) <= MaxOrphans
  /\ vec' = m.vec
  /\ heap' = m.heap
  /\ last' = [op |-> op, v |-> v, src |-> src,
              res |-> IF m.thrown THEN "throw" ELSE "ok",
              arg |-> arg, val |-> val, seq |-> seq, ev |-> m.ev,
              ret |-> DefaultVal]

\* The failure injections of one operation, given its run m0 without any:
\* no failure, or a failure at one of its fallible calls; out-of-block writes
\* keep the value or leave Garbage.
Injections(m0) ==
  (0..m0.calls) \X (IF m0.ev.oob THEN BOOLEAN ELSE {FALSE})

DefaultCtor(v) ==
  /\ ~vec[v].live
  /\ \E m0 \in {ctor_default(Machine(0, FALSE), v)} :
       \E i \in Injections(m0) :
       \E m \in {ctor_default(Machine(i[1], i[2]), v)} :
         Commit(m, "ctor_default", v, v, 0, DefaultVal, <<>>)

SizedCtor(v, L) ==
  /\ ~vec[v].live
  /\ \E n \in Counts(L) :
       \E m0 \in {ctor_sized(Machine(0, FALSE), v, n, DefaultVal)} :
         \E i \in Injections(m0) :
         \E m \in {ctor_sized(Machine(i[1], i[2]), v, n, DefaultVal)} :
           Commit(m, "ctor_sized", v, v, n, DefaultVal, <<>>)

SizedValueCtor(v, L) ==
  /\ ~vec[v].live
  /\ \E n \in Counts(L), val \in Values :
       \E m0 \in {ctor_sized(Machine(0, FALSE), v, n, val)} :
         \E i \in Injections(m0) :
         \E m \in {ctor_sized(Machine(i[1], i[2]), v, n, val)} :
           Commit(m, "ctor_sized", v, v, n, val, <<>>)

RangeCtor(v, L) ==
  /\ ~vec[v].live
  /\ \E s \in Sources(L) :
       \E m0 \in {ctor_range(Machine(0, FALSE), v, s)} :
         \E i \in Injections(m0) :
         \E m \in {ctor_range(Machine(i[1], i[2]), v, s)} :
           Commit(m, "ctor_range", v, v, Len(s), DefaultVal, s)

CopyCtor(v) ==
  /\ ~vec[v].live
  /\ \E o \in VecIds \ {v} :
       /\ vec[o].live
       /\ \E m0 \in {ctor_copy(Machine(0, FALSE), v, o)} :
            \E i \in Injections(m0) :
            \E m \in {ctor_copy(Machine(i[1], i[2]), v, o)} :
              Commit(m, "ctor_copy", v, o, 0, DefaultVal, <<>>)

MoveCtor(v) ==
  /\ ~vec[v].live
  /\ \E o \in VecIds \ {v} :
       /\ vec[o].live
       /\ \E m0 \in {ctor_move(Machine(0, FALSE), v, o)} :
            \E i \in Injections(m0) :
            \E m \in {ctor_move(Machine(i[1], i[2]), v, o)} :
              Commit(m, "ctor_move", v, o, 0, DefaultVal, <<>>)

Dtor(v) ==
  /\ vec[v].live
  /\ \E m0 \in {dtor(Machine(0, FALSE), v)} :
       \E i \in Injections(m0) :
       \E m \in {dtor(Machine(i[1], i[2]), v)} :
         Commit(m, "dtor", v, v, 0, DefaultVal, <<>>)

CopyAssign(v, others) ==
  /\ vec[v].live
  /\ \E o \in others :
       /\ vec[o].live
       /\ \E m0 \in {assign_copy(Machine(0, FALSE), v, o)} :
            \E i \in Injections(m0) :
            \E m \in {assign_copy(Machine(i[1], i[2]), v, o)} :
              Commit(m, "assign_copy", v, o, 0, DefaultVal, <<>>)

MoveAssign(v, others) ==
  /\ vec[v].live
  /\ \E o \in others :
       /\ vec[o].live
       /\ \E m0 \in {assign_move(Machine(0, FALSE), v, o)} :
            \E i \in Injections(m0) :
            \E m \in {assign_move(Machine(i[1], i[2]), v, o)} :
              Commit(m, "assign_move", v, o, 0, DefaultVal, <<>>)

PushBack(v, L, vals) ==
  /\ vec[v].live
  /\ vec[v].size < L
  /\ \E val \in vals :
       \E m0 \in {emplace_back(Machine(0, FALSE), v, val)} :
         \E i \in Injections(m0) :
         \E m \in {emplace_back(Machine(i[1], i[2]), v, val)} :
           Commit(m, "push_back", v, v, 0, val, <<>>)

PopBack(v) ==
  /\ vec[v].live
  /\ \E m0 \in {pop_back(Machine(0, FALSE), v)} :
       \E i \in Injections(m0) :
       \E m \in {pop_back(Machine(i[1], i[2]), v)} :
         Commit(m, "pop_back", v, v, 0, DefaultVal, <<>>)

Reserve(v, L) ==
  /\ vec[v].live
  /\ \E n \in Counts(L) :
       \E m0 \in {reserve(Machine(0, FALSE), v, n)} :
         \E i \in Injections(m0) :
         \E m \in {reserve(Machine(i[1], i[2]), v, n)} :
           Commit(m, "reserve", v, v, n, DefaultVal, <<>>)

ShrinkToFit(v) ==
  /\ vec[v].live
  /\ \E m0 \in {shrink_to_fit(Machine(0, FALSE), v)} :
       \E i \in Injections(m0) :
       \E m \in {shrink_to_fit(Machine(i[1], i[2]), v)} :
         Commit(m, "shrink_to_fit", v, v, 0, DefaultVal, <<>>)

Resize(v, L) ==
  /\ vec[v].live
  /\ \E n \in Counts(L) :
       \E m0 \in {resize(Machine(0, FALSE), v, n, DefaultVal)} :
         \E i \in Injections(m0) :
         \E m \in {resize(Machine(i[1], i[2]), v, n, DefaultVal)} :
           Commit(m, "resize", v, v, n, DefaultVal, <<>>)

ResizeValue(v, L) ==
  /\ vec[v].live
  /\ \E n \in Counts(L), val \in Values :
       \E m0 \in {resize(Machine(0, FALSE), v, n, val)} :
         \E i \in Injections(m0) :
         \E m \in {resize(Machine(i[1], i[2]), v, n, val)} :
           Commit(m, "resize", v, v, n, val, <<>>)

Clear(v) ==
  /\ vec[v].live
  /\ \E m0 \in {clear(Machine(0, FALSE), v)} :
       \E i \in Injections(m0) :
       \E m \in {clear(Machine(i[1], i[2]), v)} :
         Commit(m, "clear", v, v, 0, DefaultVal, <<>>)

\* at makes no fallible call: a throw of at is the std::out_of_range of
\* check_index.
At(v, L) ==
  /\ vec[v].live
  /\ \E index \in Counts(L) :
       \E m \in {at(Machine(0, FALSE), v, index)} :
         /\ vec' = m.vec
         /\ heap' = m.heap
         /\ last' = [op |-> "at", v |-> v, src |-> v,
                     res |-> IF m.thrown THEN "throw" ELSE "ok",
                     arg |-> index, val |-> DefaultVal, seq |-> <<>>, ev |-> m.ev,
                     ret |-> IF m.thrown THEN DefaultVal ELSE m.ret]

\* A program that owns one Vector, A.
Next ==
  \/ DefaultCtor("A") \/ SizedCtor("A", MaxLen) \/ SizedValueCtor("A", MaxLen)
  \/ RangeCtor("A", MaxLen) \/ Dtor("A")
  \/ CopyAssign("A", {"A"}) \/ MoveAssign("A", {"A"})
  \/ PushBack("A", MaxLen, Values) \/ PopBack("A")
  \/ Reserve("A", MaxLen) \/ ShrinkToFit("A")
  \/ Resize("A", MaxLen) \/ ResizeValue("A", MaxLen) \/ Clear("A")

Spec == Init /\ [][Next]_vars

\* A program that owns two Vectors, A and B, and copies, moves and assigns
\* one to the other.
NextPair ==
  \E v \in VecIds :
    \/ DefaultCtor(v) \/ CopyCtor(v) \/ MoveCtor(v) \/ Dtor(v)
    \/ CopyAssign(v, VecIds \ {v}) \/ MoveAssign(v, VecIds \ {v})
    \/ PushBack(v, MaxPairLen, PairValues(v)) \/ PopBack(v)
    \/ Clear(v) \/ At(v, MaxPairLen)

SpecPair == Init /\ [][NextPair]_vars

\* A program that appends up to MaxLong elements to one Vector, A, and
\* reserves storage for it.
NextLong ==
  \/ DefaultCtor("A") \/ Dtor("A")
  \/ PushBack("A", MaxLong, PairValues("A")) \/ PopBack("A")
  \/ Reserve("A", MaxLong)

SpecLong == Init /\ [][NextLong]_vars

\* ------------------------------------------------------------- properties
Elems(x) == ElemsOf(heap, vec[x])
AllDestroyed == \A x \in VecIds : ~vec[x].live
LiveBlocks == {b \in BlockIds : heap[b].live}
Owners(b) == {x \in VecIds : vec[x].live /\ vec[x].data = b}
EmptyVec == [live |-> TRUE, data |-> Null, size |-> 0, capacity |-> 0]
ReallocOps == {"reserve", "push_back", "resize", "shrink_to_fit"}
Max(a, b) == IF a > b THEN a ELSE b

\* C1: in every reachable state a live Vector has 0 <= size() <= capacity().
C1_SizeWithinCapacity ==
  \A x \in VecIds :
    vec[x].live => (0 <= vec[x].size /\ vec[x].size <= vec[x].capacity)

\* C2: after the N push_back calls that the range constructor makes on an
\* empty Vector, size() = N and capacity() >= N, and for N = 1, 2, 3 the
\* capacity is N.
C2_AppendGrowth ==
  (last.op = "ctor_range" /\ last.res = "ok") =>
    /\ vec[last.v].size = last.arg
    /\ vec[last.v].capacity >= last.arg
    /\ (last.arg \in 1..3 => vec[last.v].capacity = last.arg)

\* C3: a reallocation that fails (allocate throws, or the transfer of the
\* k-th element throws) inside reserve, push_back, resize or shrink_to_fit
\* propagates the failure and leaves the Vector with the same storage block,
\* length, capacity and element values as before the call.
C3_FailedReallocationRollsBack ==
  [][(last'.ev.refail /\ last'.op \in ReallocOps) =>
       /\ last'.res = "throw"
       /\ vec'[last'.v] = vec[last'.v]
       /\ ElemsOf(heap', vec'[last'.v]) = Elems(last'.v)
       /\ vec[last'.v].data # Null =>
            heap'[vec[last'.v].data] = heap[vec[last'.v].data]]_vars

\* C4: after move-constructing B from A, or move-assigning A into a different
\* Vector B, A is empty with no storage, B has A's previous block, length,
\* capacity and elements, the block has one owner, no block is ever released
\* twice, and once both Vectors are destroyed no block remains allocated.
C4_MoveLeavesSourceEmpty ==
  [][/\ (last'.op \in {"ctor_move", "assign_move"} /\ last'.v # last'.src) =>
          /\ vec'[last'.src] = EmptyVec
          /\ vec'[last'.v] = vec[last'.src]
          /\ ElemsOf(heap', vec'[last'.v]) = Elems(last'.src)
          /\ vec[last'.src].data # Null =>
               /\ heap'[vec[last'.src].data] = heap[vec[last'.src].data]
               /\ {x \in VecIds : vec'[x].live /\ vec'[x].data = vec[last'.src].data}
                    = {last'.v}
     /\ ~last'.ev.dfree
     /\ (\A x \in VecIds : ~vec'[x].live) => (\A b \in BlockIds : ~heap'[b].live)]_vars

\* B was move-assigned from A and now holds elements in a block; A is empty.
C4_Witness ==
  /\ last.op = "assign_move" /\ last.v # last.src
  /\ vec[last.v].size >= 1 /\ vec[last.v].data # Null
  /\ vec[last.src] = EmptyVec

\* C5: a successful shrink_to_fit() leaves capacity() = size(), with no
\* storage when size() = 0, and the length and the elements unchanged.
C5_ShrinkToFitExact ==
  [][(last'.op = "shrink_to_fit" /\ last'.res = "ok") =>
       /\ vec'[last'.v].capacity = vec'[last'.v].size
       /\ (vec'[last'.v].size = 0 => vec'[last'.v].data = Null)
       /\ vec'[last'.v].size = vec[last'.v].size
       /\ ElemsOf(heap', vec'[last'.v]) = Elems(last'.v)]_vars

\* C6: a Vector constructed from the range over s has size() = |s| and
\* iterating it from begin() to end() yields the elements of s in order.
C6_RangeRoundTrip ==
  (last.op = "ctor_range" /\ last.res = "ok") =>
    /\ vec[last.v].size = Len(last.seq)
    /\ Elems(last.v) = last.seq

\* C7: a successful resize(count, value) leaves size() = count, keeps the
\* first min(count, L) elements, appends count - L copies of value when
\* count > L and then has capacity() >= count; and after pushing the
\* elements of s onto an empty Vector, resize(count, value) with count > |s|
\* yields s followed by count - |s| copies of value.
C7_ResizeContents ==
  [][(last'.op = "resize" /\ last'.res = "ok") =>
       LET L == vec[last'.v].size
           count == last'.arg
           after == ElemsOf(heap', vec'[last'.v])
       IN /\ vec'[last'.v].size = count
          /\ \A i \in 1..Min(count, L) : after[i] = Elems(last'.v)[i]
          /\ \A i \in (L + 1)..count : after[i] = last'.val
          /\ count > L => vec'[last'.v].capacity >= count
          /\ (last.op = "ctor_range" /\ last.res = "ok" /\ count > Len(last.seq)) =>
               after = last.seq \o [i \in 1..(count - Len(last.seq)) |-> last'.val]]_vars

\* C8: when the construction of the i-th element fails in a sized constructor
\* or in the copy constructor, the elements already constructed are destroyed
\* and the storage is released, so that no constructed element and no block
\* of the failed Vector remains.
C8_FailedCtorCleansUp ==
  (last.op \in {"ctor_sized", "ctor_copy"} /\ last.res = "throw") =>
    /\ ~last.ev.leak
    /\ ~vec[last.v].live
    /\ \A b \in LiveBlocks : Owners(b) # {}

\* C9: a copy- or move-assignment of a Vector to itself, and a copy-assignment
\* whose copy fails, leave the target with the same length, capacity and
\* element values.
C9_AssignLeavesTarget ==
  [][(/\ last'.op \in {"assign_copy", "assign_move"}
      /\ (last'.v = last'.src \/ last'.res = "throw")) =>
       /\ vec'[last'.v].size = vec[last'.v].size
       /\ vec'[last'.v].capacity = vec[last'.v].capacity
       /\ ElemsOf(heap', vec'[last'.v]) = Elems(last'.v)]_vars

\* C10: between operations every allocated block is the storage of exactly
\* one live Vector, no block is released twice, every deallocate passes the
\* slot count of the allocation, and once every Vector is destroyed no
\* allocated block remains.
C10_BlockOwnership ==
  /\ \A b \in LiveBlocks : Cardinality(Owners(b)) = 1
  /\ ~last.ev.dfree
  /\ ~last.ev.badn
  /\ AllDestroyed => LiveBlocks = {}

\* C11: at(i) signals the out-of-range error exactly when i >= size() and
\* otherwise returns the element at index i; either way the length, the
\* capacity and the elements of the Vector are unchanged.
C11_AtChecked ==
  [][last'.op = "at" =>
       /\ (last'.res = "throw") <=> (last'.arg >= vec[last'.v].size)
       /\ (last'.arg < vec[last'.v].size) =>
            last'.ret = Elems(last'.v)[last'.arg + 1]
       /\ vec'[last'.v] = vec[last'.v]
       /\ ElemsOf(heap', vec'[last'.v]) = Elems(last'.v)]_vars

\* at(size()) was called on a Vector that holds elements, and threw.
C11_Witness ==
  /\ last.op = "at" /\ last.res = "throw"
  /\ vec[last.v].size >= 1 /\ last.arg = vec[last.v].size

\* C12: for every live Vector cend() - cbegin() = size() and cend() = end(),
\* and the traversal from cbegin() to cend() visits its size() elements.
C12_CendIsEnd ==
  \A x \in VecIds :
    vec[x].live =>
      /\ Distance(cend(vec[x]), cbegin(vec[x])) = vec[x].size
      /\ cend(vec[x]) = end(vec[x])
      /\ Traverse(heap, cbegin(vec[x]), cend(vec[x])) = Elems(x)

\* C13: reserve(target) with target > capacity() leaves capacity() >= target
\* when it returns, and with target <= capacity() changes nothing (same block,
\* same capacity); in both cases size() and the elements are unchanged.
C13_ReserveFrame ==
  [][last'.op = "reserve" =>
       /\ (last'.arg > vec[last'.v].capacity /\ last'.res = "ok") =>
            vec'[last'.v].capacity >= last'.arg
       /\ (last'.arg <= vec[last'.v].capacity) =>
            (last'.res = "ok" /\ vec'[last'.v] = vec[last'.v] /\ heap' = heap)
       /\ vec'[last'.v].size = vec[last'.v].size
       /\ ElemsOf(heap', vec'[last'.v]) = Elems(last'.v)]_vars

\* C14: a Vector copy-constructed from a source has the source's length and
\* elements, capacity equal to that length, and a storage block of its own;
\* a push_back, pop_back, resize or clear of the copy after that leaves the
\* source's length, capacity and elements unchanged, and one of the source
\* leaves the copy's unchanged.
C14_CopyIsIndependent ==
  [][/\ (last'.op = "ctor_copy" /\ last'.res = "ok") =>
          /\ vec'[last'.v].size = vec[last'.src].size
          /\ ElemsOf(heap', vec'[last'.v]) = Elems(last'.src)
          /\ vec'[last'.v].capacity = vec'[last'.v].size
          /\ vec'[last'.v].data # Null => vec'[last'.v].data # vec'[last'.src].data
          /\ vec'[last'.src] = vec[last'.src]
          /\ ElemsOf(heap', vec'[last'.src]) = Elems(last'.src)
     /\ (/\ last.op = "ctor_copy" /\ last.res = "ok"
         /\ last'.op \in {"push_back", "pop_back", "resize", "clear"}
         /\ last'.v \in {last.v, last.src}) =>
          LET other == IF last'.v = last.v THEN last.src ELSE last.v
          IN /\ vec'[other] = vec[other]
             /\ ElemsOf(heap', vec'[other]) = Elems(other)]_vars

\* C15: pop_back() on a non-empty Vector destroys exactly the last element and
\* decrements size() by one, leaving the remaining elements unchanged;
\* pop_back() on an empty Vector signals no error and changes nothing.
C15_PopBack ==
  [][last'.op = "pop_back" =>
       /\ last'.res = "ok"
       /\ vec[last'.v].size > 0 =>
            /\ vec'[last'.v].size = vec[last'.v].size - 1
            /\ vec'[last'.v].data = vec[last'.v].data
            /\ heap[vec[last'.v].data].mem[vec[last'.v].size] # Raw
            /\ heap' = [heap EXCEPT ![vec[last'.v].data].mem[vec[last'.v].size] = Raw]
            /\ ElemsOf(heap', vec'[last'.v])
                 = SubSeq(Elems(last'.v), 1, vec[last'.v].size - 1)
       /\ vec[last'.v].size = 0 =>
            (vec'[last'.v] = vec[last'.v] /\ heap' = heap)]_vars

\* pop_back() ran on a Vector of at least two elements.
C15_Witness ==
  /\ last.op = "pop_back" /\ vec[last.v].size >= 1
  /\ heap[vec[last.v].data].mem[vec[last.v].size + 1] = Raw

\* C16: clear(), pop_back() and resize(count) with count <= size() leave the
\* capacity and the storage block as they were, without reallocating; after
\* clear() size() = 0.
C16_TruncationKeepsCapacity ==
  [][(\/ last'.op \in {"clear", "pop_back"}
      \/ (last'.op = "resize" /\ last'.arg <= vec[last'.v].size)) =>
       /\ last'.res = "ok"
       /\ vec'[last'.v].capacity = vec[last'.v].capacity
       /\ vec'[last'.v].data = vec[last'.v].data
       /\ last'.ev.asked = 0
       /\ \A b \in BlockIds : (heap'[b].live = heap[b].live /\ heap'[b].n = heap[b].n)
       /\ last'.op = "clear" => vec'[last'.v].size = 0]_vars

\* clear() ran on a Vector and left it empty with a block of two or more
\* slots.
C16_Witness ==
  /\ last.op = "clear" /\ vec[last.v].size = 0
  /\ vec[last.v].capacity >= 2 /\ vec[last.v].data # Null

\* C17: push_back with size() = capacity() calls for a new capacity of
\* max(1, floor(capacity * 1.5)) before it constructs the element, and with
\* size() # capacity() it does not reallocate; size() grows by one exactly
\* when the new element was constructed.
C17_GrowthRequest ==
  [][last'.op = "push_back" =>
       LET c == vec[last'.v].capacity
           want == Max(1, (c * 15) \div 10)
       IN /\ vec[last'.v].size = c =>
               /\ last'.ev.asked = want
               /\ last'.ev.refail => heap' = heap
               /\ last'.res = "ok" =>
                    (vec'[last'.v].capacity = want /\ heap'[vec'[last'.v].data].n = want)
          /\ vec[last'.v].size # c =>
               /\ last'.ev.asked = 0
               /\ vec'[last'.v].data = vec[last'.v].data
               /\ vec'[last'.v].capacity = c
          /\ last'.res = "ok" =>
               /\ vec'[last'.v].size = vec[last'.v].size + 1
               /\ heap'[vec'[last'.v].data].mem[vec'[last'.v].size] # Raw
          /\ last'.res = "throw" => vec'[last'.v].size = vec[last'.v].size]_vars

\* push_back on a full Vector of capacity 2 called for 3 slots.
C17_Witness ==
  /\ last.op = "push_back" /\ last.res = "ok"
  /\ last.ev.asked = 3 /\ vec[last.v].capacity = 3 /\ vec[last.v].size = 3

\* C18: when the construction of a new trailing element fails in push_back
\* or in a growing resize, after any reallocation succeeded, the failure is
\* propagated and the Vector has the length and the elements it had, with no
\* constructed element left beyond index size().
C18_FailedAppendLeavesNothing ==
  [][(/\ last'.op \in {"push_back", "resize"}
      /\ last'.res = "throw" /\ ~last'.ev.refail) =>
       /\ vec'[last'.v].size = vec[last'.v].size
       /\ ElemsOf(heap', vec'[last'.v]) = Elems(last'.v)
       /\ vec'[last'.v].data # Null =>
            \A i \in (vec'[last'.v].size + 1)..PhysLen :
              heap'[vec'[last'.v].data].mem[i] = Raw]_vars

\* C19: no operation constructs, destroys or reads a slot outside the
\* storage block it addresses.
C19_WithinStorage ==
  ~last.ev.oob /\ ~last.ev.oobr

====
